---- MODULE Spec2Model ----
(***************************************************************************)
(* A model of scripts/memcheck_xml2junit_converter.py, the script that     *)
(* converts Valgrind Memcheck xml reports into JUnit xml.                  *)
(*                                                                         *)
(* The script is Python 2 source (line 114 is indented with a tab that     *)
(* only Python 2 accepts as eight columns); the model follows the Python 2 *)
(* reading, in which line 114 belongs to the body of the loop of line 109. *)
(*                                                                         *)
(* Conventions.  The result of ElementTree's find() is None when no child  *)
(* matches and an element otherwise; an element is modelled as the 1-tuple *)
(* of its text.  Every element that is present carries text, as in the     *)
(* reports Valgrind writes.  Each out.write(...) call is one entry of the  *)
(* written file: the tuple of the operands of + in the argument, in order, *)
(* so the file's bytes are the concatenation of all pieces.  Writes reach  *)
(* the file when they are made (CPython flushes an unclosed file at exit). *)
(***************************************************************************)
EXTENDS Naturals, Sequences, FiniteSets, TLC

VARIABLES
  pc,          \* "start", "walk", "done" (the walk is exhausted) or "crashed"
  skip_tests,  \* args.skip_tests
  outdir,      \* whether args.output_directory exists
  fs,          \* the files of the output directory, by name
  subdir,      \* the directory os.walk is yielding, as its path from the root
  visited,     \* the directories os.walk has yielded
  files,       \* the files of subdir the inner loop has still to iterate over
  bound,       \* whether the module-level names fi and li are bound
  fi,          \* module-level name fi (lines 97, 112)
  li,          \* module-level name li (lines 98, 113)
  parsed,      \* history: the <<directory, filename>> pairs handed to ET.parse
  listing,     \* history: the <<directory, filename>> pairs os.walk has yielded
  last,        \* history: what the last iteration of the inner loop did
  nerrors,     \* history: how many error nodes the parsed reports held so far
  arg,         \* the inputs of a single conversion (function-level checks)
  ret          \* its results

vars == <<pc, skip_tests, outdir, fs, subdir, visited, files, bound, fi, li,
          parsed, listing, last, nerrors, arg, ret>>

-----------------------------------------------------------------------------
(* Bounds of the model. *)

MaxFrames == 2   \* frames in one stack
MaxErrors == 2   \* error nodes in one report, and in the reports of one run
MaxFiles == 2    \* files listed by one walk
MaxDirs == 3     \* directories yielded by one walk

-----------------------------------------------------------------------------
(* Elements and text. *)

None == <<>>
Elem(t) == <<t>>
text(e) == e[1]
Opt(S) == {None} \cup {Elem(t) : t \in S}

RECURSIVE Join(_)
Join(cs) == IF cs = <<>> THEN "" ELSE Head(cs) \o Join(Tail(cs))

(* str.replace(old, new) on a string held as its sequence of characters;  *)
(* old is one character, new a sequence of characters.                    *)
RECURSIVE replace(_, _, _)
replace(cs, old, new) ==
  IF cs = <<>> THEN <<>>
  ELSE (IF Head(cs) = old THEN new ELSE <<Head(cs)>>) \o replace(Tail(cs), old, new)

(* Lines 118-120: the three replacements, ampersand first. *)
EscapeWrongOrder(cs) ==
  replace(replace(replace(cs, "<", <<"&", "l", "t", ";">>),
                  ">", <<"&", "g", "t", ";">>),
          "&", <<"&", "a", "m", "p", ";">>)
Escape(cs) ==
  replace(replace(replace(cs, "&", <<"&", "a", "m", "p", ";">>),
                  "<", <<"&", "l", "t", ";">>),
          ">", <<"&", "g", "t", ";">>)

-----------------------------------------------------------------------------
(* The pieces the script writes. *)

XmlDecl == <<"<?xml version=\"1.0\" encoding=\"UTF-8\"?>\n">>
SuiteOpen == "<testsuite name=\"valgrind\" tests=\""
CaseOpen == "    <testcase classname=\"valgrind-memcheck\" name=\""
CaseClose == <<"    </testcase>\n">>
SuiteClose == <<"</testsuite>\n">>
UnknownFn == <<"u","n","k","n","o","w","n"," ","f","u","n","c","t","i","o","n",
               " ","n","a","m","e">>

(* Lines 71-75. *)
test_type(skip) == IF skip THEN "skipped" ELSE "error"
PluralAlways(skip) == "s"
plural(skip) == IF skip THEN "" ELSE "s"

(* Lines 80 and 83: the testsuite tag. *)
SuiteLine(tests, skip, n) ==
  <<SuiteOpen, ToString(tests), "\" ", test_type(skip), "", plural(skip), "=\"",
    ToString(n), "\">\n">>
(* Line 81. *)
PassingCase(filename) == <<CaseOpen, Join(filename), "\"/>\n">>
(* Line 103. *)
CaseLineLoc(filename, errorcount, kind, f, l) ==
  <<CaseOpen, Join(filename), " ", ToString(errorcount), " (", text(kind), ", ",
    text(f), ":", text(l), ")\">\n">>
(* Line 105. *)
CaseLine(filename, errorcount, kind) ==
  <<CaseOpen, Join(filename), " ", ToString(errorcount), " (", text(kind), ")\">\n">>
(* Lines 106, 107, 125. *)
StatusOpen(tt, kind) == <<"        <", tt, " type=\"", text(kind), "\">\n">>
WhatLine(what) == <<"  ", text(what), "\n\n">>
StatusClose(tt) == <<"        </", tt, ">\n">>
(* Lines 122 and 124. *)
FrameLineLoc(ip, bodytext, f, l) ==
  <<"  ", text(ip), ": ", Join(bodytext), " (", text(f), ":", text(l), ")\n">>
FrameLine(ip, bodytext) == <<"  ", text(ip), ": ", Join(bodytext), "\n">>

-----------------------------------------------------------------------------
(* The per-error loop body, lines 86-126. *)

Scope(b, f, l) == [bound |-> b, fi |-> f, li |-> l]

(* Lines 96-100: the scan that picks the frame of the test-case name.      *)
(* The names fi and li keep whatever they held when frames is empty.       *)
RECURSIVE ScanLast(_, _)
ScanLast(frames, s) ==
  IF frames = <<>> THEN s
  ELSE ScanLast(Tail(frames), Scope(TRUE, Head(frames).file, Head(frames).line))
RECURSIVE ScanFrames(_, _)
ScanFrames(frames, s) ==
  IF frames = <<>> THEN s
  ELSE LET f == Head(frames).file
           l == Head(frames).line
       IN IF f /= None /\ l /= None THEN Scope(TRUE, f, l)
          ELSE ScanFrames(Tail(frames), Scope(TRUE, f, l))

(* Lines 109-124: one body line per frame.  A frame without ip faults at   *)
(* line 122 or 124, after fi and li were rebound.                          *)
RECURSIVE BodyFrames(_, _, _)
BodyFrames(frames, s, acc) ==
  IF frames = <<>> THEN [writes |-> acc, fault |-> FALSE, scope |-> s]
  ELSE LET frame == Head(frames)
           ip == frame.ip
           fn == frame.fn
           s1 == Scope(TRUE, frame.file, frame.line)
           bodytext == Escape(IF fn /= None THEN text(fn) ELSE UnknownFn)
       IN IF ip = None THEN [writes |-> acc, fault |-> TRUE, scope |-> s1]
          ELSE BodyFrames(Tail(frames), s1,
                 Append(acc, IF s1.fi /= None /\ s1.li /= None
                             THEN FrameLineLoc(ip, bodytext, s1.fi, s1.li)
                             ELSE FrameLine(ip, bodytext)))

(* Lines 86-126 for one error node.  The result holds the writes made, the *)
(* bindings of fi and li afterwards, and whether an exception was raised.  *)
TranscodeError(filename, errorcount, error, skip, s) ==
  LET kind == error.kind
      what == IF error.what = None THEN error.xwhat ELSE error.what
      stack == error.stack
      tt == test_type(skip)
  IN IF stack = None                      \* line 94: None has no findall
     THEN [writes |-> <<>>, fault |-> TRUE, scope |-> s]
     ELSE
     LET frames == text(stack)
         s1 == ScanFrames(frames, s)
     IN IF ~s1.bound                      \* line 102: NameError
        THEN [writes |-> <<>>, fault |-> TRUE, scope |-> s1]
        ELSE IF kind = None               \* lines 103, 105: None has no text
        THEN [writes |-> <<>>, fault |-> TRUE, scope |-> s1]
        ELSE
        LET head == << IF s1.fi /= None /\ s1.li /= None
                       THEN CaseLineLoc(filename, errorcount, kind, s1.fi, s1.li)
                       ELSE CaseLine(filename, errorcount, kind),
                       StatusOpen(tt, kind) >>
        IN IF what = None                 \* line 107: None has no text
           THEN [writes |-> head, fault |-> TRUE, scope |-> s1]
           ELSE
           LET b == BodyFrames(frames, s1, <<>>)
               w == Append(head, WhatLine(what)) \o b.writes
           IN IF b.fault
              THEN [writes |-> w, fault |-> TRUE, scope |-> b.scope]
              ELSE [writes |-> w \o <<StatusClose(tt), CaseClose>>,
                    fault |-> FALSE, scope |-> b.scope]

-----------------------------------------------------------------------------
(* One report, lines 64-128. *)

(* The nodes of a forest in document order, as Element.iter() yields them. *)
RECURSIVE Descendants(_)
Descendants(nodes) ==
  IF nodes = <<>> THEN <<>>
  ELSE <<Head(nodes)>> \o Descendants(Head(nodes).kids) \o Descendants(Tail(nodes))

IsError(n) == n.tag = "error"

(* Line 64: doc.findall('.//error'), every error node below the root. *)
FindChildren(doc) == SelectSeq(doc.kids, IsError)
findall(doc) == SelectSeq(Descendants(doc.kids), IsError)

DotXml == <<".", "x", "m", "l">>
endswith(cs, suffix) ==
  /\ Len(cs) >= Len(suffix)
  /\ SubSeq(cs, Len(cs) - Len(suffix) + 1, Len(cs)) = suffix
(* Line 57: "xml" in filename. *)
HasXml(cs) ==
  \E i \in 1..Len(cs) : i + 2 <= Len(cs) /\ SubSeq(cs, i, i + 2) = <<"x", "m", "l">>
(* Lines 67-69, without the directory: every output lands in the one       *)
(* output directory, so the file's name there identifies it.               *)
output_filename(filename) ==
  Join(IF endswith(filename, DotXml) THEN filename ELSE filename \o DotXml)

(* Lines 85-126: the loop over the error nodes; errorcount is the count    *)
(* before this iteration and acc what was written so far.                  *)
RECURSIVE TranscodeErrors(_, _, _, _, _, _)
TranscodeErrors(filename, errors, errorcount, skip, s, acc) ==
  IF errors = <<>> THEN [writes |-> acc, fault |-> FALSE, scope |-> s]
  ELSE LET r == TranscodeError(filename, errorcount + 1, Head(errors), skip, s)
       IN IF r.fault
          THEN [writes |-> acc \o r.writes, fault |-> TRUE, scope |-> r.scope]
          ELSE TranscodeErrors(filename, Tail(errors), errorcount + 1, skip,
                               r.scope, acc \o r.writes)

(* Lines 64-128 for a parsed report: what is written to the output file,   *)
(* whether out.close() was reached, and the bindings of fi and li after.   *)
ConvertAlwaysCloses(filename, doc, skip, s) ==
  LET errors == findall(doc)
      n == Len(errors)
      r == TranscodeErrors(filename, errors, 0, skip, s,
                           <<XmlDecl, SuiteLine(IF n = 0 THEN 1 ELSE n, skip, n)>>
                           \o IF n = 0 THEN <<PassingCase(filename)>> ELSE <<>>)
  IN [writes |-> Append(r.writes, SuiteClose), fault |-> r.fault,
      scope |-> r.scope, closed |-> TRUE]
Convert(filename, doc, skip, s) ==
  LET errors == findall(doc)
      n == Len(errors)
  IN IF n = 0
     THEN [writes |-> <<XmlDecl, SuiteLine(1, skip, n), PassingCase(filename),
                        SuiteClose>>,
           fault |-> FALSE, scope |-> s, closed |-> TRUE]
     ELSE LET r == TranscodeErrors(filename, errors, 0, skip, s,
                                   <<XmlDecl, SuiteLine(n, skip, n)>>)
          IN IF r.fault
             THEN [writes |-> r.writes, fault |-> TRUE, scope |-> r.scope,
                   closed |-> FALSE]
             ELSE [writes |-> Append(r.writes, SuiteClose), fault |-> FALSE,
                   scope |-> r.scope, closed |-> TRUE]

-----------------------------------------------------------------------------
(* Inputs. *)

RXml == <<"r", ".", "x", "m", "l">>
Xml == <<"x", "m", "l">>
ATxt == <<"a", ".", "t", "x", "t">>

Frame(ip, fn, f, l) == [ip |-> ip, fn |-> fn, file |-> f, line |-> l]
FnTexts == { <<"A", "<", "B", "&", "C", ">">> }
FileTexts == {"a.c"}
LineTexts == {"10", "20"}

(* A frame before its instruction pointer is known. *)
FrameShapes ==
  { Frame(None, fn, f, l) : fn \in Opt(FnTexts), f \in Opt(FileTexts), l \in Opt(LineTexts) }

(* Frame k of a stack has address 0xk; noip names the one frame without    *)
(* an ip child (0: every frame has one).                                   *)
WithIps(frames, noip) ==
  [k \in 1..Len(frames) |->
     [frames[k] EXCEPT !.ip = IF k = noip THEN None ELSE Elem("0x" \o ToString(k))]]

SeqsUpTo(S, n) == UNION { [1..k -> S] : k \in 0..n }

Stacks ==
  { WithIps(fs0, noip) : <<fs0, noip>> \in
      { p \in SeqsUpTo(FrameShapes, MaxFrames) \X (0..MaxFrames) : p[2] <= Len(p[1]) } }

ErrorNode(kind, what, xwhat, stack, kids) ==
  [tag |-> "error", kind |-> kind, what |-> what, xwhat |-> xwhat, stack |-> stack,
   kids |-> kids]
OtherNode(kids) ==
  [tag |-> "other", kind |-> None, what |-> None, xwhat |-> None, stack |-> None,
   kids |-> kids]

Descriptions == { <<Elem("w"), None>>, <<None, Elem("x")>>, <<Elem("w"), Elem("x")>>,
                  <<None, None>> }

QFrame == Frame(Elem("0x1"), Elem(<<"f">>), Elem("a.c"), Elem("10"))
BareFrame == Frame(Elem("0x1"), None, None, None)

(* The bindings of fi and li a conversion can start from: those of the     *)
(* start of the script, and those an earlier error node of the run leaves  *)
(* behind, here a node with one frame.                                     *)
Unbound == Scope(FALSE, None, None)
Scopes ==
  {Unbound} \cup
  { TranscodeError(RXml, 1, ErrorNode(Elem("Leak"), Elem("w"), None, Elem(<<f>>), <<>>),
                   FALSE, Unbound).scope : f \in {QFrame, BareFrame} }

NotRun == <<>>

(* The run-level variables play no part in a function-level check. *)
NoRun ==
  /\ pc = "call" /\ skip_tests = FALSE /\ outdir = TRUE /\ fs = <<>>
  /\ subdir = <<>> /\ visited = {} /\ files = <<>> /\ bound = FALSE
  /\ fi = None /\ li = None /\ parsed = {} /\ listing = {} /\ last = <<>>
  /\ nerrors = 0
run_vars == <<pc, skip_tests, outdir, fs, subdir, visited, files, bound, fi, li,
              parsed, listing, last, nerrors>>

-----------------------------------------------------------------------------
(* SpecRecord: the loop body of lines 86-126 applied to one error node.    *)

InitRecord ==
  /\ NoRun
  /\ arg \in { [filename |-> RXml, errorcount |-> n, skip |-> FALSE, scope |-> s,
                error |-> ErrorNode(k, d[1], d[2], Elem(st), <<>>)] :
               n \in {1, MaxErrors}, s \in Scopes, k \in Opt({"Leak"}),
               d \in Descriptions, st \in Stacks }
  /\ ret = NotRun

CallTranscodeError ==
  /\ pc = "call" /\ ret = NotRun /\ "error" \in DOMAIN arg
  /\ ret' = TranscodeError(arg.filename, arg.errorcount, arg.error, arg.skip, arg.scope)
  /\ UNCHANGED <<arg, run_vars>>

SpecRecord == InitRecord /\ [][CallTranscodeError]_vars

-----------------------------------------------------------------------------
(* SpecFile: lines 64-128 applied to one parsed report, once with and once *)
(* without --skip_tests, from the same bindings of fi and li.              *)

FileRecords ==
  { ErrorNode(k, w, None, st, <<>>) :
      k \in Opt({"Leak"}), w \in Opt({"w"}),
      st \in {None, Elem(<<>>), Elem(<<QFrame>>), Elem(<<BareFrame>>)} }

(* Each error node the child of the one before it. *)
RECURSIVE Nest(_)
Nest(es) == IF es = <<>> THEN <<>> ELSE << [Head(es) EXCEPT !.kids = Nest(Tail(es))] >>

(* The children of the root, for the error nodes es in document order. *)
Shapes(es) ==
  { es, <<OtherNode(es)>>, Nest(es),
    IF es = <<>> THEN <<>> ELSE <<Head(es), OtherNode(<<OtherNode(Tail(es))>>)>> }

Doc(kids) == [wellformed |-> TRUE, kids |-> kids]
Malformed == [wellformed |-> FALSE, kids |-> <<>>]

FileDocs == { Doc(kids) : kids \in UNION { Shapes(es) : es \in SeqsUpTo(FileRecords, MaxErrors) } }

InitFile ==
  /\ NoRun
  /\ arg \in [filename : {RXml, Xml}, doc : FileDocs, scope : Scopes]
  /\ ret = [m \in BOOLEAN |-> NotRun]

CallConvert ==
  /\ pc = "call" /\ "doc" \in DOMAIN arg
  /\ \E m \in BOOLEAN :
       /\ ret[m] = NotRun
       /\ ret' = [ret EXCEPT ![m] = Convert(arg.filename, arg.doc, m, arg.scope)]
  /\ UNCHANGED <<arg, run_vars>>

SpecFile == InitFile /\ [][CallConvert]_vars

-----------------------------------------------------------------------------
(* Spec: the whole script, lines 50-128.                                   *)

OutBase == "out"           \* os.path.basename(args.output_directory)
RootName == "in"           \* os.path.basename(args.input_directory)
DirNames == {"out", "sub"}
Filenames == {RXml, Xml, ATxt}
OutNames == { output_filename(f) : f \in {g \in Filenames : HasXml(g)} }

basename(path) == path[Len(path)]
(* Line 54. *)
Excluded(path) == basename(path) = OutBase

(* A file of the output directory: what was written to it and, as history, *)
(* the input <<filename, doc>> it was written for.                         *)
Absent == <<>>
File(writes, src) == << [writes |-> writes, src |-> src] >>

RecLoc(l) ==
  ErrorNode(Elem("Leak"), Elem("w"), None,
            Elem(<<Frame(Elem("0x1"), Elem(<<"f">>), Elem("a.c"), Elem(l))>>), <<>>)
RecNoFrames == ErrorNode(Elem("Leak"), Elem("w"), None, Elem(<<>>), <<>>)
RecNoKind == ErrorNode(None, Elem("w"), None, Elem(<<QFrame>>), <<>>)
RunRecords == {RecLoc("10"), RecNoFrames, RecNoKind}
RunDocs == { Doc(es) : es \in SeqsUpTo(RunRecords, MaxErrors) }

(* The lists of distinct file names os.walk can yield for one directory. *)
FileLists(n) ==
  { l \in SeqsUpTo(Filenames, n) : \A i, j \in 1..Len(l) : i /= j => l[i] /= l[j] }

Init ==
  /\ pc = "start"
  /\ skip_tests \in BOOLEAN
  /\ outdir \in BOOLEAN
  /\ fs = [n \in OutNames |-> Absent]
  /\ subdir = <<>> /\ visited = {} /\ files = <<>>
  /\ bound = FALSE /\ fi = None /\ li = None
  /\ parsed = {} /\ listing = {} /\ last = [op |-> "none"] /\ nerrors = 0
  /\ arg = <<>> /\ ret = NotRun

(* Lines 50-51. *)
MkOutputDir ==
  /\ pc = "start"
  /\ outdir' = TRUE
  /\ pc' = "walk"
  /\ UNCHANGED <<skip_tests, fs, subdir, visited, files, bound, fi, li, parsed,
                 listing, last, nerrors, arg, ret>>

(* The directories os.walk can yield next: the root first, then, top-down  *)
(* and depth-first, a directory not yet yielded whose parent is the        *)
(* current directory or one of its ancestors.  The trees walked use each   *)
(* directory name at most once along a path.                               *)
NextDirs ==
  IF visited = {} THEN { <<RootName>> }
  ELSE { q \in { Append(SubSeq(subdir, 1, k), d) : k \in 1..Len(subdir), d \in DirNames } :
           /\ q \notin visited
           /\ \A i, j \in 1..Len(q) : i /= j => q[i] /= q[j] }

(* Line 53, with lines 54-55: one iteration of the outer loop.  The inner  *)
(* loop over the previous directory has ended.  In a directory named like  *)
(* the output directory the `continue` leaves the files untouched; the     *)
(* walk still descends below it.                                           *)
WalkDir(p, fl) ==
  /\ pc = "walk" /\ files = <<>>
  /\ p \in NextDirs
  /\ Cardinality(visited) < MaxDirs
  /\ fl \in FileLists(MaxFiles - Cardinality(listing))
  /\ subdir' = p
  /\ visited' = visited \cup {p}
  /\ listing' = listing \cup { <<p, fl[i]>> : i \in 1..Len(fl) }
  /\ files' = IF Excluded(p) THEN <<>> ELSE fl
  /\ UNCHANGED <<pc, skip_tests, outdir, fs, bound, fi, li, parsed, last, nerrors,
                 arg, ret>>

(* Lines 56-57: a file whose name does not contain "xml". *)
SkipFile ==
  /\ pc = "walk" /\ files /= <<>>
  /\ ~HasXml(Head(files))
  /\ files' = Tail(files)
  /\ last' = [op |-> "skip", dir |-> subdir, filename |-> Head(files)]
  /\ UNCHANGED <<pc, skip_tests, outdir, fs, subdir, visited, bound, fi, li, parsed,
                 listing, nerrors, arg, ret>>

(* Lines 56-63: ET.parse raises ParseError. *)
ParseErrorBreaks ==
  /\ pc = "walk" /\ files /= <<>>
  /\ HasXml(Head(files))
  /\ files' = <<>>
  /\ parsed' = parsed \cup { <<subdir, Head(files)>> }
  /\ last' = [op |-> "ParseError", dir |-> subdir, filename |-> Head(files)]
  /\ UNCHANGED <<pc, skip_tests, outdir, fs, subdir, visited, bound, fi, li, listing,
                 nerrors, arg, ret>>
ParseError ==
  /\ pc = "walk" /\ files /= <<>>
  /\ HasXml(Head(files))
  /\ files' = Tail(files)
  /\ parsed' = parsed \cup { <<subdir, Head(files)>> }
  /\ last' = [op |-> "ParseError", dir |-> subdir, filename |-> Head(files)]
  /\ UNCHANGED <<pc, skip_tests, outdir, fs, subdir, visited, bound, fi, li, listing,
                 nerrors, arg, ret>>

(* Lines 56-128: a file that parses.  An exception raised while the error  *)
(* nodes are written ends the script with the output file left as it is.   *)
ConvertFile(doc) ==
  /\ pc = "walk" /\ files /= <<>>
  /\ HasXml(Head(files))
  /\ doc \in RunDocs
  /\ nerrors + Len(findall(doc)) <= MaxErrors
  /\ nerrors' = nerrors + Len(findall(doc))
  /\ LET filename == Head(files)
         out == output_filename(filename)
         r == Convert(filename, doc, skip_tests, Scope(bound, fi, li))
     IN /\ fs' = [fs EXCEPT ![out] = File(r.writes, <<filename, doc>>)]
        /\ bound' = r.scope.bound /\ fi' = r.scope.fi /\ li' = r.scope.li
        /\ pc' = IF r.fault THEN "crashed" ELSE "walk"
        /\ parsed' = parsed \cup { <<subdir, filename>> }
        /\ last' = [op |-> "convert", dir |-> subdir, filename |-> filename,
                    doc |-> doc, out |-> out, fault |-> r.fault,
                    before |-> Scope(bound, fi, li), replaced |-> fs[out]]
  /\ files' = Tail(files)
  /\ UNCHANGED <<skip_tests, outdir, subdir, visited, listing, arg, ret>>

(* os.walk has no directory left: the script ends. *)
Finish ==
  /\ pc = "walk" /\ files = <<>> /\ visited /= {}
  /\ pc' = "done"
  /\ UNCHANGED <<skip_tests, outdir, fs, subdir, visited, files, bound, fi, li, parsed,
                 listing, last, nerrors, arg, ret>>

Next ==
  \/ MkOutputDir
  \/ \E p \in NextDirs, fl \in FileLists(MaxFiles) : WalkDir(p, fl)
  \/ SkipFile
  \/ ParseError
  \/ \E doc \in RunDocs : ConvertFile(doc)
  \/ Finish

Spec == Init /\ [][Next]_vars

-----------------------------------------------------------------------------
(* Properties of the loop body (SpecRecord). *)

Qualifies(frame) == frame.file /= None /\ frame.line /= None
ArgFrames == text(arg.error.stack)
Called == ret /= NotRun

(* The character-by-character escaping of a function name. *)
Entity(c) ==
  CASE c = "&" -> "&amp;" [] c = "<" -> "&lt;" [] c = ">" -> "&gt;" [] OTHER -> c
RECURSIVE Escaped(_)
Escaped(cs) == IF cs = <<>> THEN "" ELSE Entity(Head(cs)) \o Escaped(Tail(cs))

(* C7: when some frame of the error has both a file and a line, the test   *)
(* case is named `filename i (kind, file:line)` with file and line those   *)
(* of the first such frame in document order, whatever the later frames,   *)
(* the line values or the earlier bindings of fi and li are.               *)
C7_FirstQualifyingFrameNames ==
  (Called /\ arg.error.kind /= None /\ \E k \in 1..Len(ArgFrames) : Qualifies(ArgFrames[k]))
  => LET k == CHOOSE k \in 1..Len(ArgFrames) :
                /\ Qualifies(ArgFrames[k])
                /\ \A j \in 1..(k - 1) : ~Qualifies(ArgFrames[j])
     IN /\ ret.writes /= <<>>
        /\ ret.writes[1] =
             <<"    <testcase classname=\"valgrind-memcheck\" name=\"",
               Join(arg.filename), " ", ToString(arg.errorcount), " (",
               text(arg.error.kind), ", ", text(ArgFrames[k].file), ":",
               text(ArgFrames[k].line), ")\">\n">>

(* A stack whose first frame qualifies with the larger line and whose      *)
(* second frame qualifies too, named after the first.                      *)
C7_Witness ==
  /\ Called /\ "error" \in DOMAIN arg /\ arg.error.kind /= None
  /\ Len(ArgFrames) = 2
  /\ Qualifies(ArgFrames[1]) /\ Qualifies(ArgFrames[2])
  /\ text(ArgFrames[1].line) = "20" /\ text(ArgFrames[2].line) = "10"
  /\ arg.scope.bound /\ arg.scope.fi /= None
  /\ ret.writes /= <<>> /\ ret.writes[1][10] = "20"

ExpectedFrameLine(frame) ==
  LET fn == IF frame.fn = None THEN "unknown function name" ELSE Escaped(text(frame.fn))
  IN IF Qualifies(frame)
     THEN <<"  ", text(frame.ip), ": ", fn, " (", text(frame.file), ":",
            text(frame.line), ")\n">>
     ELSE <<"  ", text(frame.ip), ": ", fn, "\n">>

(* C9: the body of a completed test case is the description followed by    *)
(* one line per frame of the stack, every frame once and in order:         *)
(* `ip: fn (file:line)` when that frame has both file and line, `ip: fn`   *)
(* otherwise, fn escaped (& first, then < and >) or "unknown function      *)
(* name" when the frame has no fn.                                         *)
C9_BodyListsEveryFrame ==
  (Called /\ ~ret.fault)
  => /\ Len(ret.writes) = Len(ArgFrames) + 5
     /\ \A k \in 1..Len(ArgFrames) : ret.writes[3 + k] = ExpectedFrameLine(ArgFrames[k])
     /\ ret.writes[Len(ArgFrames) + 4][1] = "        </"

(* The name comes from frame 1 while frame 2, without file, is written too,  *)
(* one frame with a name to escape and one without a name.                 *)
C9_Witness ==
  /\ Called /\ "error" \in DOMAIN arg /\ ~ret.fault
  /\ Len(ArgFrames) = 2
  /\ Qualifies(ArgFrames[1]) /\ ArgFrames[2].file = None /\ ArgFrames[2].line /= None
  /\ ArgFrames[1].fn /= None /\ ArgFrames[2].fn = None
  /\ ret.writes[4][4] = "A&lt;B&amp;C&gt;"
  /\ ret.writes[5] = <<"  ", "0x2", ": ", "unknown function name", "\n">>

-----------------------------------------------------------------------------
(* Properties of one conversion (SpecFile). *)

RECURSIVE CountErrors(_)
CountErrors(nodes) ==
  IF nodes = <<>> THEN 0
  ELSE (IF Head(nodes).tag = "error" THEN 1 ELSE 0)
       + CountErrors(Head(nodes).kids) + CountErrors(Tail(nodes))

NumErrors == CountErrors(arg.doc.kids)
CaseOpens(w) == { j \in 1..Len(w) : w[j][1] = "    <testcase classname=\"valgrind-memcheck\" name=\"" }
StatusOpens(w) == { j \in 1..Len(w) : w[j][1] = "        <" }
Completed(m) == ret[m] /= NotRun /\ ~ret[m].fault

(* C1: a conversion that completes on a report with N error nodes, at any  *)
(* depth, writes tests="N" and N test cases when N >= 1 and tests="1" and  *)
(* one test case when N = 0, the status count being N in both cases; the   *)
(* one test case of N = 0 is named exactly the filename and has no status  *)
(* child.                                                                  *)
C1_CountInvariant ==
  \A m \in BOOLEAN :
    Completed(m)
    => LET w == ret[m].writes
           tests == IF NumErrors = 0 THEN 1 ELSE NumErrors
       IN /\ w[2][1] = "<testsuite name=\"valgrind\" tests=\""
          /\ w[2][2] = ToString(tests)
          /\ w[2][8] = ToString(NumErrors)
          /\ Cardinality(CaseOpens(w)) = tests
          /\ NumErrors = 0 =>
               /\ w[3] = <<"    <testcase classname=\"valgrind-memcheck\" name=\"",
                           Join(arg.filename), "\"/>\n">>
               /\ StatusOpens(w) = {}

(* Two error nodes, neither a child of the root, converted to completion.  *)
C1_Witness ==
  /\ "doc" \in DOMAIN arg /\ Completed(FALSE)
  /\ NumErrors = 2 /\ \A j \in 1..Len(arg.doc.kids) : arg.doc.kids[j].tag /= "error"
  /\ Cardinality(CaseOpens(ret[FALSE].writes)) = 2

Relabel(w) ==
  IF w[1] = "<testsuite name=\"valgrind\" tests=\""
  THEN [w EXCEPT ![4] = "skipped", ![6] = ""]
  ELSE IF w[1] \in {"        <", "        </"}
  THEN [w EXCEPT ![2] = "skipped"]
  ELSE w

(* C8: the skip-mode and the normal-mode conversion of one file, from the  *)
(* same bindings, write the same sequence with the same test-case names,   *)
(* counts and bodies, stop at the same place and leave the same bindings;  *)
(* they differ only in the status-count attribute, named `errors` in       *)
(* normal mode and `skipped` in skip mode, and in the tag of each status   *)
(* child, `error` against `skipped`.                                       *)
C8_SkipModeOnlyRelabels ==
  (ret[TRUE] /= NotRun /\ ret[FALSE] /= NotRun)
  => LET n == ret[FALSE]
         s == ret[TRUE]
     IN /\ s.fault = n.fault /\ s.closed = n.closed /\ s.scope = n.scope
        /\ Len(s.writes) = Len(n.writes)
        /\ \A j \in 1..Len(n.writes) :
             /\ s.writes[j] = Relabel(n.writes[j])
             /\ n.writes[j][1] = "<testsuite name=\"valgrind\" tests=\""
                  => n.writes[j][4] = "error" /\ n.writes[j][6] = "s"
             /\ n.writes[j][1] \in {"        <", "        </"} => n.writes[j][2] = "error"

(* Both modes ran to completion on a report with error nodes. *)
C8_Witness ==
  /\ "doc" \in DOMAIN arg /\ Completed(TRUE) /\ Completed(FALSE) /\ NumErrors >= 1
  /\ ret[TRUE].writes[2][4] = "skipped" /\ ret[FALSE].writes[2][4] = "error"

(* C4 (as claimed): what a completed conversion writes depends only on the *)
(* file's name, its content and the skip mode: started from any other      *)
(* bindings of fi and li that earlier files of a run can leave, the        *)
(* conversion of the same file, when it completes, writes the same.        *)
C4_OutputDependsOnlyOnFile ==
  \A m \in BOOLEAN :
    Completed(m)
    => \A s \in Scopes :
         LET r == Convert(arg.filename, arg.doc, m, s)
         IN ~r.fault => r.writes = ret[m].writes

-----------------------------------------------------------------------------
(* Properties of the whole script (Spec). *)

RECURSIVE ErrorNodes(_)
ErrorNodes(nodes) ==
  IF nodes = <<>> THEN <<>>
  ELSE (IF Head(nodes).tag = "error" THEN <<Head(nodes)>> ELSE <<>>)
       \o ErrorNodes(Head(nodes).kids) \o ErrorNodes(Tail(nodes))

Converted == last.op = "convert"
LastErrors == ErrorNodes(last.doc.kids)
LastWrites == fs[last.out][1].writes
IsCaseLine(w) == w[1] = "    <testcase classname=\"valgrind-memcheck\" name=\""
EndsSuite(w) == w /= <<>> /\ w[Len(w)] = <<"</testsuite>\n">>

(* C2 (as claimed): an error node none of whose frames has both a file and *)
(* a line, a node whose stack has no frame included, gets a test case      *)
(* named `filename i (kind)`, without location, wherever the node sits in  *)
(* the run.                                                                *)
C2_NoLocationWithoutQualifyingFrame ==
  Converted
  => LET cases == SelectSeq(LastWrites, IsCaseLine)
     IN \A i \in 1..Len(LastErrors) :
          ( /\ i <= Len(cases)
            /\ LastErrors[i].stack /= None
            /\ \A k \in 1..Len(text(LastErrors[i].stack)) :
                 ~Qualifies(text(LastErrors[i].stack)[k]) )
          => cases[i] = <<"    <testcase classname=\"valgrind-memcheck\" name=\"",
                          Join(last.filename), " ", ToString(i), " (",
                          text(LastErrors[i].kind), ")\">\n">>

(* C3 (as claimed): no file below a directory named like the output        *)
(* directory, at any depth, is handed to the parser.                       *)
C3_NothingParsedBelowOutputDir ==
  \A pf \in parsed : \A k \in 1..Len(pf[1]) : pf[1][k] /= OutBase

(* C5 (as claimed): a report all of whose error nodes have a kind, a stack *)
(* and an ip on every frame is converted without a fault.                  *)
C5_OptionalFieldsNeverFault ==
  ( /\ Converted
    /\ \A i \in 1..Len(LastErrors) :
         /\ LastErrors[i].kind /= None
         /\ LastErrors[i].stack /= None
         /\ \A k \in 1..Len(text(LastErrors[i].stack)) :
              text(LastErrors[i].stack)[k].ip /= None )
  => ~last.fault

Pending == { files[i] : i \in 1..Len(files) }

(* C6: a step in which ET.parse raises ParseError leaves every file of the *)
(* output directory as it was, raises nothing and goes on with the next    *)
(* file of the directory; and as long as the script runs, every file the   *)
(* walk has listed with "xml" in its name, outside the directories named   *)
(* like the output directory, has been parsed or is still to be iterated.  *)
C6_ParseErrorSkipsOnlyThatFile ==
  /\ [][ (last' /= last /\ last'.op = "ParseError")
         => /\ fs' = fs
            /\ pc' = "walk"
            /\ subdir' = subdir
            /\ files' = Tail(files) ]_vars
  /\ [] ( pc \in {"walk", "done"}
          => \A lf \in listing :
               (HasXml(lf[2]) /\ ~Excluded(lf[1]))
               => \/ lf \in parsed
                  \/ lf[1] = subdir /\ lf[2] \in Pending )

(* The walk ended after a file that failed to parse (it was parsed and has *)
(* no output) was followed by one that was converted to completion.       *)
C6_Witness ==
  /\ pc = "done" /\ Converted /\ ~last.fault
  /\ \E pf \in parsed : pf[1] = last.dir /\ fs[output_filename(pf[2])] = Absent

(* The conversion of the error nodes before node i, from the bindings the *)
(* last conversion started with.                                           *)
Before(i) ==
  TranscodeErrors(last.filename, SubSeq(LastErrors, 1, i - 1), 0, skip_tests,
                  last.before, <<>>)
ReachedWithoutKind(i) ==
  /\ Converted /\ i \in 1..Len(LastErrors)
  /\ LastErrors[i].kind = None
  /\ ~Before(i).fault

(* C10: when the script reaches an error node i that has no kind, it ends  *)
(* there: nothing more can happen, the output file of the current input    *)
(* holds the declaration, the testsuite opening tag and the test cases of  *)
(* the nodes 1..i-1 and no closing testsuite tag, and every other file of  *)
(* the output directory written before still ends with its closing tag.    *)
C10_MissingKindEndsRun ==
  \A i \in 1..MaxErrors :
    ReachedWithoutKind(i)
    => /\ pc = "crashed"
       /\ ~ENABLED Next
       /\ fs[last.out] /= Absent
       /\ LastWrites[1] = <<"<?xml version=\"1.0\" encoding=\"UTF-8\"?>\n">>
       /\ LastWrites[2][1] = "<testsuite name=\"valgrind\" tests=\""
       /\ SubSeq(LastWrites, 3, Len(LastWrites)) = Before(i).writes
       /\ Len(SelectSeq(LastWrites, IsCaseLine)) = i - 1
       /\ \A j \in 1..Len(LastWrites) : LastWrites[j] /= <<"</testsuite>\n">>
       /\ \A n \in OutNames \ {last.out} : fs[n] /= Absent => EndsSuite(fs[n][1].writes)

(* The second error node of a file has no kind; the test case of the first *)
(* is in the unfinished output, and an earlier output is complete.         *)
C10_Witness ==
  /\ pc = "crashed" /\ ReachedWithoutKind(2)
  /\ Len(SelectSeq(LastWrites, IsCaseLine)) = 1
  /\ \E n \in OutNames \ {last.out} : fs[n] /= Absent /\ EndsSuite(fs[n][1].writes)

====
